---- MODULE Spec2Model ----
(***************************************************************************)
(* The comment analysis pipeline of analysis_logic.py and its Flask front  *)
(* end app.py, as a state machine.                                         *)
(*                                                                         *)
(* Texts are sequences of one-character strings.  Compound scores are      *)
(* integers in ten-thousandths (VADER rounds the compound to 4 decimals),  *)
(* so 0.05 is 500 and 1.0 is 10000.  HTML fragments are sequences of       *)
(* tokens, a token starting with "<" being a tag.                          *)
(***************************************************************************)
EXTENDS Integers, Sequences, FiniteSets, TLC

VARIABLES
    pc,                   \* the stage analyze_video is at
    video_id,             \* app.py:51
    video_details,        \* app.py:56
    video_comments,       \* app.py:61, [kind, list]; kind "none" is Python's None
    analysis_data,        \* app.py:66, the three buckets
    summaries,            \* app.py:68
    insight_data,         \* app.py:74
    strategic_conclusion, \* app.py:76
    response,             \* what analyze_video returns
    ollama_calls,         \* every request posted to OLLAMA_API_URL, with its reply
    report_files,         \* <video_id>_report.html files, by video id
    reports_data,         \* the file reports_data.json
    index_reports,        \* what the route / last handed to its template
    writers               \* the calls of update_landing_page in flight, by thread

vars ==
    <<pc, video_id, video_details, video_comments, analysis_data, summaries,
      insight_data, strategic_conclusion, response, ollama_calls, report_files,
      reports_data, index_reports, writers>>

-----------------------------------------------------------------------------
(* Bounds of the model *)

MaxComments == 3
MaxScored == 3
MaxPositive == 3

-----------------------------------------------------------------------------
(* Program constants *)

PositiveThreshold == 500
NegativeThreshold == -500
SummaryCap == 30
TopTimestamps == 5
TopKeywords == 10
MinWordLen == 4
TopReactions == 3

-----------------------------------------------------------------------------
(* Sequences *)

Min(a, b) == IF a <= b THEN a ELSE b

Take(s, n) == SubSeq(s, 1, Min(n, Len(s)))

Range(s) == {s[i] : i \in 1..Len(s)}

IndexOfFirst(s, x) == CHOOSE i \in 1..Len(s) : s[i] = x /\ \A j \in 1..(i - 1) : s[j] # x

SeqsUpTo(S, n) == UNION {[1..k -> S] : k \in 0..n}

(* list.sort / sorted: a stable sort.  With reverse=True Python still keeps
   equal keys in their original order.  The result is the permutation of the
   indices of keys. *)
InsertByKey(order, keys, i, reverse) ==
    LET Before(j) == IF reverse THEN keys[j] >= keys[i] ELSE keys[j] <= keys[i]
        After(j) == ~Before(j)
    IN  SelectSeq(order, Before) \o <<i>> \o SelectSeq(order, After)

RECURSIVE StableOrderUpTo(_, _, _)
StableOrderUpTo(keys, n, reverse) ==
    IF n = 0 THEN <<>>
    ELSE InsertByKey(StableOrderUpTo(keys, n - 1, reverse), keys, n, reverse)

StableOrder(keys, reverse) == StableOrderUpTo(keys, Len(keys), reverse)

Permute(s, order) == [k \in 1..Len(order) |-> s[order[k]]]

-----------------------------------------------------------------------------
(* Characters and the two regular expressions of extract_insights *)

Digits == {"0", "1", "2", "3", "4", "5", "6", "7", "8", "9"}

LowerLetters ==
    <<"a", "b", "c", "d", "e", "f", "g", "h", "i", "j", "k", "l", "m",
      "n", "o", "p", "q", "r", "s", "t", "u", "v", "w", "x", "y", "z">>

UpperLetters ==
    <<"A", "B", "C", "D", "E", "F", "G", "H", "I", "J", "K", "L", "M",
      "N", "O", "P", "Q", "R", "S", "T", "U", "V", "W", "X", "Y", "Z">>

IsDigit(c) == c \in Digits

(* \w *)
WordChars == Digits \cup Range(LowerLetters) \cup Range(UpperLetters) \cup {"_"}

UpperSet == Range(UpperLetters)

IsWordChar(c) == c \in WordChars

LowerChar(c) ==
    IF c \in UpperSet
    THEN LowerLetters[IndexOfFirst(UpperLetters, c)]
    ELSE c

Lower(s) == [i \in 1..Len(s) |-> LowerChar(s[i])]

WordAt(s, i) == i \in 1..Len(s) /\ IsWordChar(s[i])

DigitAt(s, i) == i \in 1..Len(s) /\ IsDigit(s[i])

CharAt(s, i, c) == i \in 1..Len(s) /\ s[i] = c

(* \b before the character at position i (i = Len(s) + 1: at the end) *)
Boundary(s, i) == WordAt(s, i - 1) # WordAt(s, i)

(* One way of matching \b(\d{1,2}:\d{2}(?::\d{2})?)\b at position i: d leading
   digits, the seconds group taken or not.  The position after the match, 0
   when this way fails. *)
TimestampTry(s, i, d, seconds) ==
    LET m == i + d
        e == IF seconds THEN m + 6 ELSE m + 3
    IN  IF /\ Boundary(s, i)
           /\ \A k \in i..(m - 1) : DigitAt(s, k)
           /\ CharAt(s, m, ":")
           /\ DigitAt(s, m + 1)
           /\ DigitAt(s, m + 2)
           /\ seconds => (CharAt(s, m + 3, ":") /\ DigitAt(s, m + 4) /\ DigitAt(s, m + 5))
           /\ Boundary(s, e)
        THEN e
        ELSE 0

(* The backtracking order of the pattern: both quantifiers are greedy. *)
TimestampMatchEnd(s, i) ==
    IF TimestampTry(s, i, 2, TRUE) > 0 THEN TimestampTry(s, i, 2, TRUE)
    ELSE IF TimestampTry(s, i, 2, FALSE) > 0 THEN TimestampTry(s, i, 2, FALSE)
    ELSE IF TimestampTry(s, i, 1, TRUE) > 0 THEN TimestampTry(s, i, 1, TRUE)
    ELSE TimestampTry(s, i, 1, FALSE)

(* The scan of findall: the first position from i on where the pattern
   matches, Len(s) + 1 when there is none *)
NextTimestampStart(s, i) ==
    LET starts == {j \in i..Len(s) : TimestampMatchEnd(s, j) > 0}
    IN  IF starts = {} THEN Len(s) + 1
        ELSE CHOOSE j \in starts : \A k \in starts : j <= k

(* timestamp_regex.findall(text): the non-overlapping matches, left to right *)
RECURSIVE FindTimestampsFrom(_, _)
FindTimestampsFrom(s, i) ==
    LET b == NextTimestampStart(s, i)
    IN  IF b > Len(s) THEN <<>>
        ELSE LET e == TimestampMatchEnd(s, b)
             IN  <<SubSeq(s, b, e - 1)>> \o FindTimestampsFrom(s, e)

FindTimestamps(s) == FindTimestampsFrom(s, 1)

(* The end of the run of word characters that starts at i *)
RECURSIVE WordRunEnd(_, _)
WordRunEnd(s, i) ==
    IF WordAt(s, i) THEN WordRunEnd(s, i + 1) ELSE i

(* The scan of findall: the first position from i on where \b\w{4,}\b
   matches, Len(s) + 1 when there is none.  \w{4,} is greedy and the closing
   \b holds only at the end of the run, so a match is a whole run that starts
   at a boundary. *)
NextWordStart(s, i) ==
    LET starts == {j \in i..Len(s) :
                       Boundary(s, j) /\ WordRunEnd(s, j) - j >= MinWordLen}
    IN  IF starts = {} THEN Len(s) + 1
        ELSE CHOOSE j \in starts : \A k \in starts : j <= k

(* re.findall(r'\b\w{4,}\b', text) *)
RECURSIVE FindWordsFrom(_, _)
FindWordsFrom(s, i) ==
    LET b == NextWordStart(s, i)
    IN  IF b > Len(s) THEN <<>>
        ELSE LET e == WordRunEnd(s, b)
             IN  <<SubSeq(s, b, e - 1)>> \o FindWordsFrom(s, e)

FindWords(s) == FindWordsFrom(s, 1)

stopwords ==
    { <<"t", "h", "i", "s">>, <<"t", "h", "a", "t">>, <<"w", "i", "t", "h">>,
      <<"w", "h", "a", "t">>, <<"f", "r", "o", "m">>, <<"y", "o", "u", "r">>,
      <<"h", "a", "v", "e">>, <<"j", "u", "s", "t">>, <<"l", "i", "k", "e">>,
      <<"l", "o", "v", "e">>, <<"v", "i", "d", "e", "o">> }

-----------------------------------------------------------------------------
(* Comment texts the model draws from *)

(* "Love it at 1:23" *)
Text_LoveIt ==
    <<"L", "o", "v", "e", " ", "i", "t", " ", "a", "t", " ", "1", ":", "2",
      "3">>

(* "bad video" *)
Text_BadVideo ==
    <<"b", "a", "d", " ", "v", "i", "d", "e", "o">>

(* "ok" *)
Text_Ok ==
    <<"o", "k">>

(* "great drop at 12:34 and again at 12:34!" *)
Text_GreatDrop ==
    <<"g", "r", "e", "a", "t", " ", "d", "r", "o", "p", " ", "a", "t", " ",
      "1", "2", ":", "3", "4", " ", "a", "n", "d", " ", "a", "g", "a", "i",
      "n", " ", "a", "t", " ", "1", "2", ":", "3", "4", "!">>

(* "Love the DROP at 1:02:03 and 5:55" *)
Text_LoveTheDrop ==
    <<"L", "o", "v", "e", " ", "t", "h", "e", " ", "D", "R", "O", "P", " ",
      "a", "t", " ", "1", ":", "0", "2", ":", "0", "3", " ", "a", "n", "d",
      " ", "5", ":", "5", "5">>

(* "bass 1:11 kick 2:22 synth 3:33 vibe" *)
Text_BassKick ==
    <<"b", "a", "s", "s", " ", "1", ":", "1", "1", " ", "k", "i", "c", "k",
      " ", "2", ":", "2", "2", " ", "s", "y", "n", "t", "h", " ", "3", ":",
      "3", "3", " ", "v", "i", "b", "e">>

(* "mood 4:44 acid 5:55 rave 6:16 tune" *)
Text_MoodAcid ==
    <<"m", "o", "o", "d", " ", "4", ":", "4", "4", " ", "a", "c", "i", "d",
      " ", "5", ":", "5", "5", " ", "r", "a", "v", "e", " ", "6", ":", "1",
      "6", " ", "t", "u", "n", "e">>

(* "epic set_list 1:234 a1:11 99:99:99 2024" *)
Text_EpicSetList ==
    <<"e", "p", "i", "c", " ", "s", "e", "t", "_", "l", "i", "s", "t", " ",
      "1", ":", "2", "3", "4", " ", "a", "1", ":", "1", "1", " ", "9", "9",
      ":", "9", "9", ":", "9", "9", " ", "2", "0", "2", "4">>

(* "5:55 5:55 6:16 6:16 6:16 wow great mood" *)
Text_Repeats ==
    <<"5", ":", "5", "5", " ", "5", ":", "5", "5", " ", "6", ":", "1", "6",
      " ", "6", ":", "1", "6", " ", "6", ":", "1", "6", " ", "w", "o", "w",
      " ", "g", "r", "e", "a", "t", " ", "m", "o", "o", "d">>

(* "this video have melody groove energy bass 7:07" *)
Text_ThisVideo ==
    <<"t", "h", "i", "s", " ", "v", "i", "d", "e", "o", " ", "h", "a", "v",
      "e", " ", "m", "e", "l", "o", "d", "y", " ", "g", "r", "o", "o", "v",
      "e", " ", "e", "n", "e", "r", "g", "y", " ", "b", "a", "s", "s", " ",
      "7", ":", "0", "7">>

(* "12:34:56:78 pure fire" *)
Text_PureFire ==
    <<"1", "2", ":", "3", "4", ":", "5", "6", ":", "7", "8", " ", "p", "u",
      "r", "e", " ", "f", "i", "r", "e">>

-----------------------------------------------------------------------------
(* analyze_comments_vader.  A comment is [text, compound]: the lexicon's
   compound score is a function of the text that is fixed outside the
   repository, so an input comment carries the score the lexicon gives it. *)

polarity_scores(comment) == [compound |-> comment.compound]

sentiment_bucket_strict(compound_score) ==
    IF compound_score > PositiveThreshold THEN "positive_comments"
    ELSE IF compound_score < NegativeThreshold THEN "negative_comments"
    ELSE "neutral_comments"

sentiment_bucket(compound_score) ==
    IF compound_score >= PositiveThreshold THEN "positive_comments"
    ELSE IF compound_score <= NegativeThreshold THEN "negative_comments"
    ELSE "neutral_comments"

RECURSIVE analyze_loop(_, _)
analyze_loop(comments, analysis_results) ==
    IF comments = <<>> THEN analysis_results
    ELSE LET comment == Head(comments)
             compound_score == polarity_scores(comment).compound
             sentiment == [text |-> comment.text, score |-> compound_score]
             bucket == sentiment_bucket(compound_score)
         IN  analyze_loop(Tail(comments),
                 [analysis_results EXCEPT ![bucket] = Append(@, sentiment)])

analyze_comments_vader(comments) ==
    analyze_loop(comments,
        [positive_comments |-> <<>>, negative_comments |-> <<>>,
         neutral_comments |-> <<>>])

-----------------------------------------------------------------------------
(* extract_insights *)

(* lines 148-153: every match of every comment, in order *)
RECURSIVE all_timestamp_mentions(_)
all_timestamp_mentions(positive_comments) ==
    IF positive_comments = <<>> THEN <<>>
    ELSE LET text == Head(positive_comments).text
             found_stamps == FindTimestamps(text)
         IN  [k \in 1..Len(found_stamps) |->
                 [timestamp |-> found_stamps[k], comment |-> text]]
             \o all_timestamp_mentions(Tail(positive_comments))

(* lines 147-150 *)
RECURSIVE all_positive_text(_)
all_positive_text(positive_comments) ==
    IF positive_comments = <<>> THEN <<>>
    ELSE Head(positive_comments).text \o <<" ">>
         \o all_positive_text(Tail(positive_comments))

(* lines 154-162: the dict keeps its keys in insertion order; it is the
   sequence of its items here *)
add_mention_once_per_comment(map, mention) ==
    IF \E k \in 1..Len(map) : map[k].timestamp = mention.timestamp
    THEN [k \in 1..Len(map) |->
             IF map[k].timestamp = mention.timestamp /\ map[k].comment # mention.comment
             THEN [map[k] EXCEPT !.count = @ + 1]
             ELSE map[k]]
    ELSE Append(map, [timestamp |-> mention.timestamp,
                      comment |-> mention.comment, count |-> 1])

add_mention(map, mention) ==
    IF \E k \in 1..Len(map) : map[k].timestamp = mention.timestamp
    THEN [k \in 1..Len(map) |->
             IF map[k].timestamp = mention.timestamp
             THEN [map[k] EXCEPT !.count = @ + 1]
             ELSE map[k]]
    ELSE Append(map, [timestamp |-> mention.timestamp,
                      comment |-> mention.comment, count |-> 1])

RECURSIVE unique_timestamps_upto(_, _)
unique_timestamps_upto(mentions, n) ==
    IF n = 0 THEN <<>>
    ELSE add_mention(unique_timestamps_upto(mentions, n - 1), mentions[n])

unique_timestamps_map(mentions) == unique_timestamps_upto(mentions, Len(mentions))

(* lines 163-164 *)
top_timestamps_with_comments(items) ==
    LET keys == [k \in 1..Len(items) |-> items[k].count]
    IN  Take(Permute(items, StableOrder(keys, TRUE)), TopTimestamps)

(* lines 165-167 *)
meaningful_words_unfiltered(text) == FindWords(Lower(text))

meaningful_words(text) ==
    LET words == FindWords(Lower(text))
        NotStopword(word) == word \notin stopwords
    IN  SelectSeq(words, NotStopword)

(* Counter(words): the counts, keyed in first-encountered order *)
RECURSIVE CounterUpTo(_, _)
CounterUpTo(words, n) ==
    IF n = 0 THEN <<>>
    ELSE LET c == CounterUpTo(words, n - 1)
             w == words[n]
         IN  IF \E k \in 1..Len(c) : c[k][1] = w
             THEN [k \in 1..Len(c) |-> IF c[k][1] = w THEN <<w, c[k][2] + 1>> ELSE c[k]]
             ELSE Append(c, <<w, 1>>)

Counter(words) == CounterUpTo(words, Len(words))

(* Counter.most_common(n): sorted(items, key=count, reverse=True)[:n] *)
most_common(counter, n) ==
    LET keys == [k \in 1..Len(counter) |-> counter[k][2]]
    IN  Take(Permute(counter, StableOrder(keys, TRUE)), n)

extract_insights(positive_comments) ==
    [top_timestamps_with_comments |->
         top_timestamps_with_comments(
             unique_timestamps_map(all_timestamp_mentions(positive_comments))),
     top_keywords |->
         most_common(Counter(meaningful_words(all_positive_text(positive_comments))),
                     TopKeywords)]

-----------------------------------------------------------------------------
(* The text-generation service and the HTML fragments *)

Categories == <<"positive", "negative", "neutral">>

bucket_key(category) ==
    CASE category = "positive" -> "positive_comments"
      [] category = "negative" -> "negative_comments"
      [] category = "neutral" -> "neutral_comments"

HtmlTags == {"<p>", "</p>", "<ul>", "</ul>", "<li>", "</li>", "<p class='text-red-400'>"}

(* re.sub('<[^<]+?>', '', html) *)
strip_tags(html) ==
    LET NotTag(token) == token \notin HtmlTags
    IN  SelectSeq(html, NotTag)

NoCommentsFragment(category) ==
    <<"<p>", "No ", category, " comments to analyze.", "</p>">>

OllamaErrorFragment(e) ==
    <<"<p class='text-red-400'>", "Error communicating with Ollama: ", e, "</p>">>

StrategyErrorFragment(e) ==
    <<"<p class='text-red-400'>", "Failed to generate strategic conclusion: ", e, "</p>">>

(* What a post to OLLAMA_API_URL can come back with: a message content, or
   any exception of requests.post, raise_for_status, response.json or the
   lookup of result['message']['content'] *)
OllamaReplies ==
    { [ok |-> TRUE, content |-> <<"<ul>", "<li>", "theme", "</li>", "</ul>">>, error |-> ""],
      [ok |-> FALSE, content |-> <<>>, error |-> "ConnectionError"] }

-----------------------------------------------------------------------------
(* summarize_with_ollama: the summary, and the calls it posted *)

summarize_with_ollama_uncaught(comments, category, reply) ==
    IF comments = <<>>
    THEN [summary |-> NoCommentsFragment(category), calls |-> <<>>]
    ELSE LET excerpt == Take(comments, SummaryCap)
             comment_texts == [k \in 1..Len(excerpt) |-> excerpt[k].text]
             call == [purpose |-> "summarize", category |-> category,
                      prompt |-> [category |-> category, comment_texts |-> comment_texts],
                      reply |-> reply]
         IN  [summary |-> reply.content, calls |-> <<call>>]

summarize_with_ollama_uncapped(comments, category, reply) ==
    IF comments = <<>>
    THEN [summary |-> NoCommentsFragment(category), calls |-> <<>>]
    ELSE LET excerpt == comments
             comment_texts == [k \in 1..Len(excerpt) |-> excerpt[k].text]
             call == [purpose |-> "summarize", category |-> category,
                      prompt |-> [category |-> category, comment_texts |-> comment_texts],
                      reply |-> reply]
         IN  [summary |-> IF reply.ok THEN reply.content
                          ELSE OllamaErrorFragment(reply.error),
              calls |-> <<call>>]

summarize_with_ollama(comments, category, reply) ==
    IF comments = <<>>
    THEN [summary |-> NoCommentsFragment(category), calls |-> <<>>]
    ELSE LET excerpt == Take(comments, SummaryCap)
             comment_texts == [k \in 1..Len(excerpt) |-> excerpt[k].text]
             call == [purpose |-> "summarize", category |-> category,
                      prompt |-> [category |-> category, comment_texts |-> comment_texts],
                      reply |-> reply]
         IN  [summary |-> IF reply.ok THEN reply.content
                          ELSE OllamaErrorFragment(reply.error),
              calls |-> <<call>>]

-----------------------------------------------------------------------------
(* generate_strategic_conclusion: raised, or the conclusion and its call *)

(* f"{x/total:.1%}", in tenths of a percent; total is not 0 *)
share(x, total) == (2000 * x + total) \div (2 * total)

generate_strategic_conclusion_aborting(total_comments, results, summs, reply) ==
    LET num_positive == Len(results.positive_comments)
        num_negative == Len(results.negative_comments)
        clean_positive_summary == strip_tags(summs.positive)
        clean_negative_summary == strip_tags(summs.negative)
    IN  IF total_comments = 0 \/ ~reply.ok
        THEN \* line 124: num_positive/total_comments, outside the try
             [raised |-> TRUE, error |-> "ZeroDivisionError",
              conclusion |-> <<>>, calls |-> <<>>]
        ELSE LET prompt == [total_comments |-> total_comments,
                            num_positive |-> num_positive,
                            positive_share |-> share(num_positive, total_comments),
                            num_negative |-> num_negative,
                            negative_share |-> share(num_negative, total_comments),
                            positive_themes |-> clean_positive_summary,
                            negative_themes |-> clean_negative_summary]
                 call == [purpose |-> "strategy", category |-> "",
                          prompt |-> prompt, reply |-> reply]
             IN  [raised |-> FALSE, error |-> "",
                  conclusion |-> IF reply.ok THEN reply.content
                                 ELSE StrategyErrorFragment(reply.error),
                  calls |-> <<call>>]

generate_strategic_conclusion(total_comments, results, summs, reply) ==
    LET num_positive == Len(results.positive_comments)
        num_negative == Len(results.negative_comments)
        clean_positive_summary == strip_tags(summs.positive)
        clean_negative_summary == strip_tags(summs.negative)
    IN  IF total_comments = 0
        THEN \* line 124: num_positive/total_comments, outside the try
             [raised |-> TRUE, error |-> "ZeroDivisionError",
              conclusion |-> <<>>, calls |-> <<>>]
        ELSE LET prompt == [total_comments |-> total_comments,
                            num_positive |-> num_positive,
                            positive_share |-> share(num_positive, total_comments),
                            num_negative |-> num_negative,
                            negative_share |-> share(num_negative, total_comments),
                            positive_themes |-> clean_positive_summary,
                            negative_themes |-> clean_negative_summary]
                 call == [purpose |-> "strategy", category |-> "",
                          prompt |-> prompt, reply |-> reply]
             IN  [raised |-> FALSE, error |-> "",
                  conclusion |-> IF reply.ok THEN reply.content
                                 ELSE StrategyErrorFragment(reply.error),
                  calls |-> <<call>>]

-----------------------------------------------------------------------------
(* The registry file reports_data.json.  kind is what the file holds:
   "missing" (no file), "object" (a JSON object, entries its members),
   "unparseable" (text that is not JSON), "array" (JSON, but not an object),
   "undecodable" (bytes that are not UTF-8). *)

EmptyMap == [k \in {} |-> ""]

MissingStore == [kind |-> "missing", entries |-> EmptyMap]

ObjectStore(entries) == [kind |-> "object", entries |-> entries]

(* lines 178-182, and the same lines 16-22 of app.py: the value of reports
   after them, or the exception that leaves them *)
load_reports(store) ==
    CASE store.kind = "missing" -> [raised |-> FALSE, error |-> "", reports |-> ObjectStore(EmptyMap)]
      [] store.kind = "unparseable" -> [raised |-> FALSE, error |-> "", reports |-> ObjectStore(EmptyMap)]
      [] store.kind = "undecodable" -> [raised |-> TRUE, error |-> "UnicodeDecodeError", reports |-> ObjectStore(EmptyMap)]
      [] OTHER -> [raised |-> FALSE, error |-> "", reports |-> store]

set_item(entries, key, value) ==
    [k \in (DOMAIN entries) \cup {key} |-> IF k = key THEN value ELSE entries[k]]

upsert_replacing_all(reports, vid, video_title) ==
    IF vid # "" /\ video_title # ""
    THEN ObjectStore(set_item(EmptyMap, vid, video_title))
    ELSE reports

(* lines 185-186 on a dict *)
upsert(reports, vid, video_title) ==
    IF vid # "" /\ video_title # ""
    THEN ObjectStore(set_item(reports.entries, vid, video_title))
    ELSE reports

update_landing_page_unloaded(store, vid, video_title) ==
    LET loaded == [raised |-> FALSE, error |-> "", reports |-> ObjectStore(EmptyMap)]
    IN  IF loaded.raised
        THEN [raised |-> TRUE, error |-> loaded.error, store |-> store]
        ELSE IF vid # "" /\ video_title # "" /\ loaded.reports.kind # "object"
        THEN [raised |-> TRUE, error |-> "TypeError", store |-> store]
        ELSE [raised |-> FALSE, error |-> "",
              store |-> upsert(loaded.reports, vid, video_title)]

(* update_landing_page: whether it raised, and the file after it *)
update_landing_page(store, vid, video_title) ==
    LET loaded == load_reports(store)
    IN  IF loaded.raised
        THEN [raised |-> TRUE, error |-> loaded.error, store |-> store]
        ELSE IF vid # "" /\ video_title # "" /\ loaded.reports.kind # "object"
        THEN \* line 186: item assignment on a list, str, number or None
             [raised |-> TRUE, error |-> "TypeError", store |-> store]
        ELSE [raised |-> FALSE, error |-> "",
              store |-> upsert(loaded.reports, vid, video_title)]

(* the route /: what it hands to render_template, or the exception *)
index(store) ==
    LET loaded == load_reports(store)
    IN  IF loaded.raised
        THEN [status |-> 500, reports |-> ObjectStore(EmptyMap)]
        ELSE [status |-> 200, reports |-> loaded.reports]

-----------------------------------------------------------------------------
(* generate_html_report: the data the template embeds *)

CountIn(scores, lo, hi) == Cardinality({k \in 1..Len(scores) : lo <= scores[k] /\ scores[k] < hi})

score_bins(results) ==
    LET positive_scores == [k \in 1..Len(results.positive_comments) |->
                               results.positive_comments[k].score]
        negative_scores == [k \in 1..Len(results.negative_comments) |->
                               results.negative_comments[k].score]
    IN  << CountIn(negative_scores, -10000, -6000),
           CountIn(negative_scores, -6000, -2000),
           Len(results.neutral_comments),
           CountIn(positive_scores, 2000, 6000),
           CountIn(positive_scores, 6000, 10001) >>

top_3(comments, reverse) ==
    LET keys == [k \in 1..Len(comments) |-> comments[k].score]
    IN  Take(Permute(comments, StableOrder(keys, reverse)), TopReactions)

generate_html_report(vid, details, total_comments, results, insights, summs, conclusion) ==
    [video_id |-> vid,
     title |-> details.title,
     channelTitle |-> details.channelTitle,
     total_comments |-> total_comments,
     sentiment_data |-> <<Len(results.positive_comments),
                          Len(results.negative_comments),
                          Len(results.neutral_comments)>>,
     chart_data |-> score_bins(results),
     top_3_positive |-> top_3(results.positive_comments, TRUE),
     top_3_negative |-> top_3(results.negative_comments, FALSE),
     insights |-> insights,
     summaries |-> summs,
     strategic_conclusion |-> conclusion]

-----------------------------------------------------------------------------
(* Inputs of the pipeline *)

VideoIds == {"vidAAAAAAAA", "vidBBBBBBBB"}

Urls == {"", "not a video url", "https://youtu.be/vidAAAAAAAA"}

(* app.py:47-51, the identifier the pattern finds in the URL; "" is no match *)
video_id_of(url) ==
    IF url = "https://youtu.be/vidAAAAAAAA" THEN "vidAAAAAAAA" ELSE ""

(* What the videos().list request can come back with *)
DetailsOutcomes ==
    { [kind |-> "items", title |-> "Live set", channelTitle |-> "Channel"],
      [kind |-> "items", title |-> "", channelTitle |-> "Channel"],
      [kind |-> "no_items", title |-> "", channelTitle |-> ""],
      [kind |-> "http_error", title |-> "", channelTitle |-> ""],
      [kind |-> "error", title |-> "", channelTitle |-> ""] }

UnknownVideo == [title |-> "Unknown Video", channelTitle |-> "Unknown Channel"]

(* get_video_details: only HttpError is caught *)
get_video_details(outcome) ==
    CASE outcome.kind = "items" ->
             [raised |-> FALSE,
              details |-> [title |-> outcome.title, channelTitle |-> outcome.channelTitle]]
      [] outcome.kind = "error" -> [raised |-> TRUE, details |-> UnknownVideo]
      [] OTHER -> [raised |-> FALSE, details |-> UnknownVideo]

PipelineComments ==
    { [text |-> Text_LoveIt, compound |-> 6000],
      [text |-> Text_BadVideo, compound |-> -500],
      [text |-> Text_Ok, compound |-> 0] }

NoComments == [kind |-> "none", list |-> <<>>]

CommentsOutcomes ==
    {[kind |-> "list", list |-> cs] : cs \in SeqsUpTo(PipelineComments, MaxComments)}
    \cup {NoComments}

(* get_video_comments: every exception is caught and gives None *)
get_video_comments(outcome) == outcome

StoredTitles == {"Old title"}

ProgramStores ==
    {MissingStore} \cup
    {ObjectStore(m) : m \in UNION {[D -> StoredTitles] : D \in SUBSET VideoIds}}

CorruptStores ==
    { [kind |-> "unparseable", entries |-> EmptyMap],
      [kind |-> "array", entries |-> EmptyMap],
      [kind |-> "undecodable", entries |-> EmptyMap] }

-----------------------------------------------------------------------------
(* State *)

EmptyResults ==
    [positive_comments |-> <<>>, negative_comments |-> <<>>, neutral_comments |-> <<>>]

NoSummaries == [positive |-> <<>>, negative |-> <<>>, neutral |-> <<>>]

NoInsights == [top_timestamps_with_comments |-> <<>>, top_keywords |-> <<>>]

NoResponse == [status |-> 0, kind |-> "none", detail |-> ""]

ErrorResponse(status, detail) == [status |-> status, kind |-> "error", detail |-> detail]

(* A call of update_landing_page on a thread of the server: where it is
   (called, loaded: after lines 178-186, opened: after line 188, done: after
   line 189), its arguments, its local reports, and whether the other call
   was between its load and its dump when this one loaded. *)
Writers == {1, 2}

NoWriters ==
    [w \in Writers |->
        [at |-> "idle", video_id |-> "", video_title |-> "",
         reports |-> MissingStore, concurrent |-> FALSE]]

InitRun ==
    /\ video_id = ""
    /\ video_details = [title |-> "", channelTitle |-> ""]
    /\ video_comments = [kind |-> "unset", list |-> <<>>]
    /\ analysis_data = EmptyResults
    /\ summaries = NoSummaries
    /\ insight_data = NoInsights
    /\ strategic_conclusion = <<>>
    /\ response = NoResponse
    /\ ollama_calls = <<>>
    /\ report_files = EmptyMap
    /\ index_reports = [status |-> 0, reports |-> ObjectStore(EmptyMap)]
    /\ writers = NoWriters

Init ==
    /\ pc = "idle"
    /\ InitRun
    /\ reports_data \in ProgramStores

-----------------------------------------------------------------------------
(* analyze_video, one action per stage *)

(* app.py:90-92 *)
Abort(e) ==
    /\ response' = ErrorResponse(500, e)
    /\ pc' = "done"

(* app.py:41-51 *)
Request ==
    /\ pc = "idle"
    /\ \E url \in Urls :
         IF url = "" \/ video_id_of(url) = ""
         THEN /\ response' = ErrorResponse(400, "url")
              /\ pc' = "done"
              /\ UNCHANGED video_id
         ELSE /\ video_id' = video_id_of(url)
              /\ pc' = "details"
              /\ UNCHANGED response
    /\ UNCHANGED writers
    /\ UNCHANGED <<video_details, video_comments, analysis_data, summaries,
                   insight_data, strategic_conclusion, ollama_calls, report_files,
                   reports_data, index_reports>>

(* app.py:56-59 *)
FetchDetails ==
    /\ pc = "details"
    /\ \E outcome \in DetailsOutcomes :
         LET got == get_video_details(outcome)
         IN  IF got.raised
             THEN Abort("details") /\ UNCHANGED video_details
             ELSE /\ video_details' = got.details
                  /\ IF got.details.title = "Unknown Video"
                     THEN /\ response' = ErrorResponse(404, "details")
                          /\ pc' = "done"
                     ELSE /\ pc' = "comments"
                          /\ UNCHANGED response
    /\ UNCHANGED writers
    /\ UNCHANGED <<video_id, video_comments, analysis_data, summaries, insight_data,
                   strategic_conclusion, ollama_calls, report_files, reports_data,
                   index_reports>>

FetchComments_continuing ==
    /\ pc = "comments"
    /\ \E outcome \in CommentsOutcomes :
         /\ video_comments' = get_video_comments(outcome)
         /\ pc' = "classify"
         /\ UNCHANGED response
    /\ UNCHANGED writers
    /\ UNCHANGED <<video_id, video_details, analysis_data, summaries, insight_data,
                   strategic_conclusion, ollama_calls, report_files, reports_data,
                   index_reports>>

(* app.py:61-64 *)
FetchComments ==
    /\ pc = "comments"
    /\ \E outcome \in CommentsOutcomes :
         /\ video_comments' = get_video_comments(outcome)
         /\ IF video_comments'.kind = "none"
            THEN /\ response' = ErrorResponse(500, "comments")
                 /\ pc' = "done"
            ELSE /\ pc' = "classify"
                 /\ UNCHANGED response
    /\ UNCHANGED writers
    /\ UNCHANGED <<video_id, video_details, analysis_data, summaries, insight_data,
                   strategic_conclusion, ollama_calls, report_files, reports_data,
                   index_reports>>

(* app.py:66 *)
Classify ==
    /\ pc = "classify"
    /\ analysis_data' = analyze_comments_vader(video_comments.list)
    /\ pc' = "summarize_positive"
    /\ UNCHANGED writers
    /\ UNCHANGED <<video_id, video_details, video_comments, summaries, insight_data,
                   strategic_conclusion, response, ollama_calls, report_files,
                   reports_data, index_reports>>

(* app.py:68-72, one entry of the dict: the entries are evaluated in order *)
Summarize(category, next) ==
    /\ pc = next[1]
    /\ \E reply \in OllamaReplies :
         LET got == summarize_with_ollama(analysis_data[bucket_key(category)],
                                          category, reply)
         IN  /\ summaries' = [summaries EXCEPT ![category] = got.summary]
             /\ ollama_calls' = ollama_calls \o got.calls
    /\ pc' = next[2]
    /\ UNCHANGED writers
    /\ UNCHANGED <<video_id, video_details, video_comments, analysis_data,
                   insight_data, strategic_conclusion, response, report_files,
                   reports_data, index_reports>>

SummarizePositive == Summarize("positive", <<"summarize_positive", "summarize_negative">>)

SummarizeNegative == Summarize("negative", <<"summarize_negative", "summarize_neutral">>)

SummarizeNeutral == Summarize("neutral", <<"summarize_neutral", "insights">>)

(* app.py:74 *)
ExtractInsights ==
    /\ pc = "insights"
    /\ insight_data' = extract_insights(analysis_data.positive_comments)
    /\ pc' = "strategy"
    /\ UNCHANGED writers
    /\ UNCHANGED <<video_id, video_details, video_comments, analysis_data, summaries,
                   strategic_conclusion, response, ollama_calls, report_files,
                   reports_data, index_reports>>

(* app.py:76-78 *)
Synthesize ==
    /\ pc = "strategy"
    /\ \E reply \in OllamaReplies :
         LET got == generate_strategic_conclusion(Len(video_comments.list),
                                                  analysis_data, summaries, reply)
         IN  IF got.raised
             THEN Abort(got.error) /\ UNCHANGED <<strategic_conclusion, ollama_calls>>
             ELSE /\ strategic_conclusion' = got.conclusion
                  /\ ollama_calls' = ollama_calls \o got.calls
                  /\ pc' = "report"
                  /\ UNCHANGED response
    /\ UNCHANGED writers
    /\ UNCHANGED <<video_id, video_details, video_comments, analysis_data, summaries,
                   insight_data, report_files, reports_data, index_reports>>

(* app.py:80-83 *)
CompileReport ==
    /\ pc = "report"
    /\ report_files' =
           set_item(report_files, video_id,
                    generate_html_report(video_id, video_details,
                                         Len(video_comments.list), analysis_data,
                                         insight_data, summaries, strategic_conclusion))
    /\ pc' = "registry"
    /\ UNCHANGED writers
    /\ UNCHANGED <<video_id, video_details, video_comments, analysis_data, summaries,
                   insight_data, strategic_conclusion, response, ollama_calls,
                   reports_data, index_reports>>

UpdateRegistry_before_report ==
    /\ pc \in {"report", "registry"}
    /\ LET got == update_landing_page(reports_data, video_id, video_details.title)
       IN  IF got.raised
           THEN Abort(got.error) /\ UNCHANGED reports_data
           ELSE /\ reports_data' = got.store
                /\ response' = [status |-> 200, kind |-> "report_url", detail |-> video_id]
                /\ pc' = "done"
    /\ UNCHANGED writers
    /\ UNCHANGED <<video_id, video_details, video_comments, analysis_data, summaries,
                   insight_data, strategic_conclusion, ollama_calls, report_files,
                   index_reports>>

(* app.py:85-88 *)
UpdateRegistry ==
    /\ pc = "registry"
    /\ LET got == update_landing_page(reports_data, video_id, video_details.title)
       IN  IF got.raised
           THEN Abort(got.error) /\ UNCHANGED reports_data
           ELSE /\ reports_data' = got.store
                /\ response' = [status |-> 200, kind |-> "report_url", detail |-> video_id]
                /\ pc' = "done"
    /\ UNCHANGED writers
    /\ UNCHANGED <<video_id, video_details, video_comments, analysis_data, summaries,
                   insight_data, strategic_conclusion, ollama_calls, report_files,
                   index_reports>>

(* app.py:10-25, the route /.  Requests are served one at a time: the route
   runs before or after analyze_video, not in the middle of it. *)
Index ==
    /\ pc \in {"idle", "done"}
    /\ index_reports' = index(reports_data)
    /\ UNCHANGED writers
    /\ UNCHANGED <<pc, video_id, video_details, video_comments, analysis_data,
                   summaries, insight_data, strategic_conclusion, response,
                   ollama_calls, report_files, reports_data>>

Next ==
    \/ Request
    \/ FetchDetails
    \/ FetchComments
    \/ Classify
    \/ SummarizePositive
    \/ SummarizeNegative
    \/ SummarizeNeutral
    \/ ExtractInsights
    \/ Synthesize
    \/ CompileReport
    \/ UpdateRegistry
    \/ Index

Spec == Init /\ [][Next]_vars

-----------------------------------------------------------------------------
(* update_landing_page called on its own, call after call *)

RegistryIds == {"", "vidAAAAAAAA", "vidBBBBBBBB"}

RegistryTitles == {"", "Live set", "Old title"}

(* line 173: the call, with its two arguments *)
CallUpdate ==
    /\ pc \in {"idle", "done"}
    /\ \E vid \in RegistryIds, video_title \in RegistryTitles :
         /\ video_id' = vid
         /\ video_details' = [title |-> video_title, channelTitle |-> "Channel"]
    /\ pc' = "registry"
    /\ response' = NoResponse
    /\ UNCHANGED writers
    /\ UNCHANGED <<video_comments, analysis_data, summaries, insight_data,
                   strategic_conclusion, ollama_calls, report_files, reports_data,
                   index_reports>>

InitRegistry ==
    /\ pc = "idle"
    /\ InitRun
    /\ reports_data = MissingStore

NextRegistry ==
    \/ CallUpdate
    \/ UpdateRegistry
    \/ Index

SpecRegistry == InitRegistry /\ [][NextRegistry]_vars

(* The pipeline and the route / over a registry file that something other
   than this program has written *)
InitCorrupt ==
    /\ pc = "idle"
    /\ InitRun
    /\ reports_data \in CorruptStores

SpecCorrupt == InitCorrupt /\ [][Next]_vars

-----------------------------------------------------------------------------
(* analyze_comments_vader on its own, over scores around every threshold *)

ScoredPool ==
    { [text |-> <<"a">>, compound |-> -10000],
      [text |-> <<"b">>, compound |-> -501],
      [text |-> <<"c">>, compound |-> -500],
      [text |-> <<"d">>, compound |-> -499],
      [text |-> <<"e">>, compound |-> 0],
      [text |-> <<"f">>, compound |-> 499],
      [text |-> <<"g">>, compound |-> 500],
      [text |-> <<"h">>, compound |-> 501],
      [text |-> <<"i">>, compound |-> 10000] }

InitClassify ==
    /\ pc = "classify"
    /\ video_id = "vidAAAAAAAA"
    /\ video_details = [title |-> "Live set", channelTitle |-> "Channel"]
    /\ video_comments \in {[kind |-> "list", list |-> cs] : cs \in SeqsUpTo(ScoredPool, MaxScored)}
    /\ analysis_data = EmptyResults
    /\ summaries = NoSummaries
    /\ insight_data = NoInsights
    /\ strategic_conclusion = <<>>
    /\ response = NoResponse
    /\ ollama_calls = <<>>
    /\ report_files = EmptyMap
    /\ reports_data = MissingStore
    /\ index_reports = [status |-> 0, reports |-> ObjectStore(EmptyMap)]
    /\ writers = NoWriters

NextClassify == Classify

SpecClassify == InitClassify /\ [][NextClassify]_vars

-----------------------------------------------------------------------------
(* extract_insights on its own, over positive buckets of the texts above *)

InsightTexts ==
    { Text_GreatDrop, Text_LoveTheDrop, Text_BassKick, Text_MoodAcid,
      Text_EpicSetList, Text_Repeats, Text_ThisVideo, Text_PureFire }

InsightPool == {[text |-> t, score |-> 6000] : t \in InsightTexts}

InitInsights ==
    /\ pc = "insights"
    /\ video_id = "vidAAAAAAAA"
    /\ video_details = [title |-> "Live set", channelTitle |-> "Channel"]
    /\ video_comments = [kind |-> "unset", list |-> <<>>]
    /\ analysis_data \in
           {[positive_comments |-> ps, negative_comments |-> <<>>,
             neutral_comments |-> <<>>] : ps \in SeqsUpTo(InsightPool, MaxPositive)}
    /\ summaries = NoSummaries
    /\ insight_data = NoInsights
    /\ strategic_conclusion = <<>>
    /\ response = NoResponse
    /\ ollama_calls = <<>>
    /\ report_files = EmptyMap
    /\ reports_data = MissingStore
    /\ index_reports = [status |-> 0, reports |-> ObjectStore(EmptyMap)]
    /\ writers = NoWriters

NextInsights == ExtractInsights

SpecInsights == InitInsights /\ [][NextInsights]_vars

-----------------------------------------------------------------------------
(* The three summarization calls on their own, over buckets whose sizes lie
   on both sides of the cap of line 91.  The k-th comment of a bucket carries
   the text #k, so that a prompt shows which comments it holds and in which
   order. *)

MaxOver == 2

DigitChars == <<"0", "1", "2", "3", "4", "5", "6", "7", "8", "9">>

NumberedText(k) == <<"#", DigitChars[(k \div 10) + 1], DigitChars[(k % 10) + 1]>>

BucketSizes == {0, 1, SummaryCap - 1} \cup (SummaryCap..(SummaryCap + MaxOver))

BucketOfSize(n, score) == [k \in 1..n |-> [text |-> NumberedText(k), score |-> score]]

FetchedOfSize(n, compound) == [k \in 1..n |-> [text |-> NumberedText(k), compound |-> compound]]

InitSummarize ==
    /\ pc = "summarize_positive"
    /\ video_id = "vidAAAAAAAA"
    /\ video_details = [title |-> "Live set", channelTitle |-> "Channel"]
    /\ \E p \in BucketSizes, q \in BucketSizes, r \in BucketSizes :
         /\ video_comments =
                [kind |-> "list",
                 list |-> FetchedOfSize(p, 6000) \o FetchedOfSize(q, -6000)
                              \o FetchedOfSize(r, 0)]
         /\ analysis_data =
                [positive_comments |-> BucketOfSize(p, 6000),
                 negative_comments |-> BucketOfSize(q, -6000),
                 neutral_comments |-> BucketOfSize(r, 0)]
    /\ summaries = NoSummaries
    /\ insight_data = NoInsights
    /\ strategic_conclusion = <<>>
    /\ response = NoResponse
    /\ ollama_calls = <<>>
    /\ report_files = EmptyMap
    /\ reports_data = MissingStore
    /\ index_reports = [status |-> 0, reports |-> ObjectStore(EmptyMap)]
    /\ writers = NoWriters

NextSummarize ==
    \/ SummarizePositive
    \/ SummarizeNegative
    \/ SummarizeNeutral

SpecSummarize == InitSummarize /\ [][NextSummarize]_vars

-----------------------------------------------------------------------------
(* Two calls of update_landing_page on two threads of the server, for
   different videos.  Each call is three steps on the shared file: the load
   with the assignment to the local dict (lines 178-186), open(..., "w"),
   which empties the file (line 188), and the dump, flushed when the with
   block closes the file (line 189). *)

OtherVideoId == "vidCCCCCCCC"

WriterVideoId(w) == IF w = 1 THEN "vidAAAAAAAA" ELSE "vidBBBBBBBB"

WriterTitles == {"Live set", "Old title"}

ConcurrentStores ==
    {MissingStore, ObjectStore(set_item(EmptyMap, OtherVideoId, "Old title"))}

(* The empty file open(..., "w") leaves: json.load raises JSONDecodeError *)
EmptyFile == [kind |-> "unparseable", entries |-> EmptyMap]

(* Bytes of a complete dump followed by the tail of a longer one: not JSON *)
OverwrittenFile == [kind |-> "unparseable", entries |-> EmptyMap]

TitleLen(video_title) ==
    CASE video_title = "Live set" -> 8
      [] video_title = "Old title" -> 9
      [] OTHER -> 0

RECURSIVE EntriesSize(_, _)
EntriesSize(entries, keys) ==
    IF keys = {} THEN 0
    ELSE LET k == CHOOSE x \in keys : TRUE
         IN  21 + TitleLen(entries[k]) + EntriesSize(entries, keys \ {k})

(* The length of json.dump(reports, f, indent=4); every id has 11 characters *)
DumpSize(entries) ==
    IF DOMAIN entries = {} THEN 2
    ELSE 4 + EntriesSize(entries, DOMAIN entries)
           + 2 * (Cardinality(DOMAIN entries) - 1)

(* The length of the file.  A file that is not a dump is the empty file of
   line 188: an overwritten file arises only from the last of the two dumps. *)
FileSize(store) == IF store.kind = "object" THEN DumpSize(store.entries) ELSE 0

InFlight(w) == writers[w].at \in {"loaded", "opened"}

(* lines 178-186 *)
WriterLoad(w) ==
    /\ writers[w].at = "called"
    /\ LET got == update_landing_page(reports_data, writers[w].video_id,
                                      writers[w].video_title)
       IN  writers' =
             [writers EXCEPT
                ![w].at = IF got.raised THEN "done" ELSE "loaded",
                ![w].reports = got.store,
                ![w].concurrent = \E o \in Writers \ {w} : InFlight(o)]
    /\ UNCHANGED <<pc, video_id, video_details, video_comments, analysis_data,
                   summaries, insight_data, strategic_conclusion, response,
                   ollama_calls, report_files, reports_data, index_reports>>

(* line 188 *)
WriterOpen(w) ==
    /\ writers[w].at = "loaded"
    /\ reports_data' = EmptyFile
    /\ writers' = [writers EXCEPT ![w].at = "opened"]
    /\ UNCHANGED <<pc, video_id, video_details, video_comments, analysis_data,
                   summaries, insight_data, strategic_conclusion, response,
                   ollama_calls, report_files, index_reports>>

(* line 189: the bytes go to offset 0 of the file as it then is *)
WriterDump(w) ==
    /\ writers[w].at = "opened"
    /\ reports_data' =
         IF FileSize(reports_data) > DumpSize(writers[w].reports.entries)
         THEN OverwrittenFile
         ELSE writers[w].reports
    /\ writers' = [writers EXCEPT ![w].at = "done"]
    /\ UNCHANGED <<pc, video_id, video_details, video_comments, analysis_data,
                   summaries, insight_data, strategic_conclusion, response,
                   ollama_calls, report_files, index_reports>>

InitConcurrent ==
    /\ pc = "idle"
    /\ video_id = ""
    /\ video_details = [title |-> "", channelTitle |-> ""]
    /\ video_comments = [kind |-> "unset", list |-> <<>>]
    /\ analysis_data = EmptyResults
    /\ summaries = NoSummaries
    /\ insight_data = NoInsights
    /\ strategic_conclusion = <<>>
    /\ response = NoResponse
    /\ ollama_calls = <<>>
    /\ report_files = EmptyMap
    /\ index_reports = [status |-> 0, reports |-> ObjectStore(EmptyMap)]
    /\ reports_data \in ConcurrentStores
    /\ \E titles \in [Writers -> WriterTitles] :
         writers = [w \in Writers |->
                       [at |-> "called", video_id |-> WriterVideoId(w),
                        video_title |-> titles[w], reports |-> MissingStore,
                        concurrent |-> FALSE]]

NextConcurrent ==
    \/ \E w \in Writers : WriterLoad(w)
    \/ \E w \in Writers : WriterOpen(w)
    \/ \E w \in Writers : WriterDump(w)

SpecConcurrent == InitConcurrent /\ [][NextConcurrent]_vars

-----------------------------------------------------------------------------
(* Claims *)

ScoredInput ==
    [k \in 1..Len(video_comments.list) |->
        [text |-> video_comments.list[k].text,
         score |-> video_comments.list[k].compound]]

(* C1: analyze_comments_vader puts every comment in exactly one bucket by the
   threshold rule on its compound score (>= 0.05 positive, <= -0.05 negative,
   otherwise neutral, the boundaries included), so the three bucket sizes sum
   to the input length, and each bucket keeps the input order. *)
C1_ThresholdPartition ==
    pc = "summarize_positive" =>
        LET IsPositive(c) == c.score >= 500
            IsNegative(c) == c.score <= -500
            IsNeutral(c) == -500 < c.score /\ c.score < 500
        IN  /\ analysis_data.positive_comments = SelectSeq(ScoredInput, IsPositive)
            /\ analysis_data.negative_comments = SelectSeq(ScoredInput, IsNegative)
            /\ analysis_data.neutral_comments = SelectSeq(ScoredInput, IsNeutral)
            /\ Len(analysis_data.positive_comments) + Len(analysis_data.negative_comments)
                 + Len(analysis_data.neutral_comments) = Len(video_comments.list)

C1_Witness ==
    /\ pc = "summarize_positive"
    /\ Len(video_comments.list) = 3
    /\ \E k \in 1..Len(analysis_data.positive_comments) :
         analysis_data.positive_comments[k].score = 500
    /\ \E k \in 1..Len(analysis_data.negative_comments) :
         analysis_data.negative_comments[k].score = -500
    /\ \E k \in 1..Len(analysis_data.neutral_comments) :
         analysis_data.neutral_comments[k].score = 0

IsNoCommentsFragment(html) == \E category \in Range(Categories) : html = NoCommentsFragment(category)

(* C2: a run whose comment list was fetched and is empty completes without
   error: the three summaries are the "no comments" fragment, the synthesis
   is skipped, and the report is compiled. *)
C2_EmptyListCompletes ==
    (pc = "done" /\ video_comments.kind = "list" /\ video_comments.list = <<>>) =>
        /\ response.status = 200
        /\ video_id \in DOMAIN report_files
        /\ \A category \in Range(Categories) : IsNoCommentsFragment(summaries[category])

IsErrorFragment(html) == Len(html) > 0 /\ html[1] = "<p class='text-red-400'>"

SummaryCalls(category) ==
    LET Mine(call) == call.purpose = "summarize" /\ call.category = category
    IN  SelectSeq(ollama_calls, Mine)

StrategyCalls ==
    LET Mine(call) == call.purpose = "strategy"
    IN  SelectSeq(ollama_calls, Mine)

RegistryHasRun ==
    /\ reports_data.kind = "object"
    /\ video_details.title # "" =>
         /\ video_id \in DOMAIN reports_data.entries
         /\ reports_data.entries[video_id] = video_details.title

(* C3: a category's summary is the inline error fragment exactly when that
   category's own summarization call failed, and the service's response when
   the call succeeded, whatever the other categories' calls did; and a run
   that made summarization calls still reaches the synthesis, compiles the
   report and updates the registry. *)
C3_SummaryIsolation ==
    /\ \A category \in Range(Categories) :
         LET calls == SummaryCalls(category)
         IN  /\ Len(calls) <= 1
             /\ Len(calls) = 1 =>
                  summaries[category] =
                      IF calls[1].reply.ok THEN calls[1].reply.content
                      ELSE OllamaErrorFragment(calls[1].reply.error)
             /\ IsErrorFragment(summaries[category]) <=>
                  (Len(calls) = 1 /\ ~calls[1].reply.ok)
    /\ (pc = "done" /\ \E category \in Range(Categories) : SummaryCalls(category) # <<>>) =>
         /\ Len(StrategyCalls) = 1
         /\ response.status = 200
         /\ video_id \in DOMAIN report_files
         /\ report_files[video_id].summaries = summaries
         /\ RegistryHasRun

C3_Witness ==
    /\ pc = "done"
    /\ response.status = 200
    /\ IsErrorFragment(summaries.negative)
    /\ SummaryCalls("positive") # <<>> /\ ~IsErrorFragment(summaries.positive)
    /\ SummaryCalls("neutral") # <<>> /\ ~IsErrorFragment(summaries.neutral)
    /\ IsErrorFragment(report_files[video_id].summaries.negative)

FatalFetch == video_details.title = "Unknown Video" \/ video_comments.kind = "none"

(* C4: when the metadata fetch gives the unknown-video record or the comment
   fetch gives None, the run ends there with an error response; no
   text-generation call is issued, no report is written and the registry
   file is left as it was. *)
C4_FatalFetch ==
    [][ /\ FatalFetch' =>
             /\ pc' = "done"
             /\ response'.kind = "error"
             /\ ollama_calls' = <<>>
             /\ report_files' = EmptyMap
             /\ reports_data' = reports_data
        /\ pc \in {"idle", "details", "comments"} =>
             /\ reports_data' = reports_data
             /\ report_files' = report_files
             /\ ollama_calls' = ollama_calls ]_vars

C4_Witness ==
    /\ pc = "done"
    /\ video_comments.kind = "none"
    /\ response.status = 500
    /\ reports_data.kind = "object"
    /\ "vidBBBBBBBB" \in DOMAIN reports_data.entries
    /\ ollama_calls = <<>>

(* C5: with a non-zero comment count the synthesis step issues exactly one
   call; when that call fails the conclusion is the inline error fragment
   and the run is not aborted: every run that fetched a non-empty list ends
   with a success response, the report is compiled with that fragment and
   the registry is updated. *)
C5_SynthesisFailureDegrades ==
    /\ Len(StrategyCalls) <= 1
    /\ (pc \in {"report", "registry"} \/ (pc = "done" /\ response.status = 200)) =>
         Len(StrategyCalls) = 1
    /\ StrategyCalls # <<>> =>
         /\ Len(video_comments.list) > 0
         /\ strategic_conclusion =
                IF StrategyCalls[1].reply.ok THEN StrategyCalls[1].reply.content
                ELSE StrategyErrorFragment(StrategyCalls[1].reply.error)
    /\ (pc = "done" /\ video_comments.kind = "list" /\ Len(video_comments.list) > 0) =>
         /\ Len(StrategyCalls) = 1
         /\ response.status = 200
    /\ (pc = "done" /\ StrategyCalls # <<>> /\ ~StrategyCalls[1].reply.ok) =>
         /\ response.status = 200
         /\ video_id \in DOMAIN report_files
         /\ IsErrorFragment(report_files[video_id].strategic_conclusion)
         /\ RegistryHasRun

C5_Witness ==
    /\ pc = "done"
    /\ response.status = 200
    /\ StrategyCalls # <<>>
    /\ ~StrategyCalls[1].reply.ok
    /\ IsErrorFragment(strategic_conclusion)
    /\ video_details.title # ""
    /\ reports_data.entries[video_id] = video_details.title

(* The matches of the timestamp pattern in a bucket: <<k, j, ts>> is the
   j-th match, ts, of comment k *)
MatchesIn(bucket) ==
    UNION {{<<k, j, FindTimestamps(bucket[k].text)[j]>> :
               j \in 1..Len(FindTimestamps(bucket[k].text))} : k \in 1..Len(bucket)}

(* The words of a bucket: <<k, i, w>> is the maximal run of word characters,
   w, that starts at position i of the lower-cased comment k *)
IsRunStart(s, i) == IsWordChar(s[i]) /\ (i = 1 \/ ~IsWordChar(s[i - 1]))

RunFrom(s, i) ==
    LET last == CHOOSE e \in i..Len(s) :
                    /\ \A j \in i..e : IsWordChar(s[j])
                    /\ e = Len(s) \/ ~IsWordChar(s[e + 1])
    IN  SubSeq(s, i, last)

RunsOf(k, s) == {<<k, i, RunFrom(s, i)>> : i \in {i \in 1..Len(s) : IsRunStart(s, i)}}

RunsIn(bucket) == UNION {RunsOf(k, Lower(bucket[k].text)) : k \in 1..Len(bucket)}

(* Over a set of occurrences <<k, i, x>> of items x *)
Items(occ) == {o[3] : o \in occ}

Occurrences(occ, x) == Cardinality({o \in occ : o[3] = x})

Earlier(p, q) == p[1] < q[1] \/ (p[1] = q[1] /\ p[2] < q[2])

FirstOf(occ, x) ==
    CHOOSE p \in occ :
        /\ p[3] = x
        /\ \A q \in occ : q[3] = x => (q = p \/ Earlier(p, q))

Outranks(occ, a, b) ==
    \/ Occurrences(occ, a) > Occurrences(occ, b)
    \/ Occurrences(occ, a) = Occurrences(occ, b) /\ Earlier(FirstOf(occ, a), FirstOf(occ, b))

PositiveBucket == analysis_data.positive_comments

(* C6: extract_insights returns at most 5 timestamp insights, one per
   distinct matched string, the 5 with the most matches, ordered by count
   descending with ties in first-seen order; an insight's count is the number
   of matches of its string over all positive comments (repeats within one
   comment included), at least 1, and its comment is the full text of the
   first comment the string was matched in. *)
C6_TimestampInsights ==
    pc = "strategy" =>
        LET top == insight_data.top_timestamps_with_comments
            occ == MatchesIn(PositiveBucket)
            stamps == Items(occ)
        IN  /\ Len(top) <= 5
            /\ Len(top) = Min(5, Cardinality(stamps))
            /\ \A i \in 1..Len(top) :
                 /\ top[i].timestamp \in stamps
                 /\ top[i].count = Occurrences(occ, top[i].timestamp)
                 /\ top[i].count >= 1
                 /\ top[i].comment = PositiveBucket[FirstOf(occ, top[i].timestamp)[1]].text
            /\ \A i, j \in 1..Len(top) :
                 i < j => Outranks(occ, top[i].timestamp, top[j].timestamp)
            /\ \A ts \in stamps :
                 (\A i \in 1..Len(top) : top[i].timestamp # ts) =>
                     \A i \in 1..Len(top) : Outranks(occ, top[i].timestamp, ts)

C6_Witness ==
    /\ pc = "strategy"
    /\ Len(PositiveBucket) = 3
    /\ PositiveBucket[1].text = Text_GreatDrop
    /\ PositiveBucket[2].text = Text_BassKick
    /\ PositiveBucket[3].text = Text_MoodAcid
    /\ Len(insight_data.top_timestamps_with_comments) = 5
    /\ insight_data.top_timestamps_with_comments[1] =
           [timestamp |-> <<"1", "2", ":", "3", "4">>, comment |-> Text_GreatDrop,
            count |-> 2]

(* C7: the keyword list of extract_insights has at most 10 entries, each a
   lower-cased token of length >= 4 outside the stopword set with its exact
   frequency over the positive comments' text, the 10 most frequent ones in
   descending order of frequency with ties in first-encountered order; an
   empty bucket gives an empty list. *)
C7_Keywords ==
    pc = "strategy" =>
        LET top == insight_data.top_keywords
            runs == RunsIn(PositiveBucket)
            occ == {o \in runs : Len(o[3]) >= 4 /\ o[3] \notin stopwords}
            keywords == Items(occ)
        IN  /\ Len(top) <= 10
            /\ Len(top) = Min(10, Cardinality(keywords))
            /\ \A i \in 1..Len(top) :
                 /\ Len(top[i][1]) >= 4
                 /\ top[i][1] \notin stopwords
                 /\ \A c \in Range(top[i][1]) : c \notin UpperSet
                 /\ top[i][1] \in keywords
                 /\ top[i][2] = Occurrences(occ, top[i][1])
            /\ \A i, j \in 1..Len(top) : i < j => Outranks(occ, top[i][1], top[j][1])
            /\ \A w \in keywords :
                 (\A i \in 1..Len(top) : top[i][1] # w) =>
                     \A i \in 1..Len(top) : Outranks(occ, top[i][1], w)
            /\ PositiveBucket = <<>> => top = <<>>

C7_Witness ==
    /\ pc = "strategy"
    /\ Len(PositiveBucket) = 3
    /\ PositiveBucket[1].text = Text_ThisVideo
    /\ PositiveBucket[2].text = Text_BassKick
    /\ PositiveBucket[3].text = Text_MoodAcid
    /\ Len(insight_data.top_keywords) = 10
    /\ insight_data.top_keywords[1] = <<<<"b", "a", "s", "s">>, 2>>
    /\ insight_data.top_keywords[2] = <<<<"m", "e", "l", "o", "d", "y">>, 1>>

Sum5(t) == t[1] + t[2] + t[3] + t[4] + t[5]

(* C8: in the report's histogram every positive or negative comment is
   counted in one of the four non-neutral bins and the neutral bin holds the
   neutral bucket's size, so the five bins sum to the total comment count. *)
C8_HistogramCoversAll ==
    \A vid \in DOMAIN report_files :
        LET report == report_files[vid]
        IN  /\ report.chart_data[3] = report.sentiment_data[3]
            /\ report.chart_data[1] + report.chart_data[2] = report.sentiment_data[2]
            /\ report.chart_data[4] + report.chart_data[5] = report.sentiment_data[1]
            /\ Sum5(report.chart_data) = report.total_comments

(* The mapping a registry file that the program wrote stands for *)
Mapping(store) == IF store.kind = "object" THEN store.entries ELSE EmptyMap

(* C9: an update_landing_page call with a non-empty id and a non-empty title
   sets that id's entry to the title and leaves every other entry as it was;
   a call with an empty id or an empty title leaves the whole mapping as it
   was; and no step ever removes an entry from the file. *)
C9_RegistryUpsert ==
    [][ LET before == Mapping(reports_data)
            after == Mapping(reports_data')
        IN  /\ (pc = "registry" /\ pc' = "done") =>
                 IF video_id # "" /\ video_details.title # ""
                 THEN /\ DOMAIN after = (DOMAIN before) \cup {video_id}
                      /\ after[video_id] = video_details.title
                      /\ \A k \in (DOMAIN before) \ {video_id} : after[k] = before[k]
                 ELSE after = before
            /\ DOMAIN before \subseteq DOMAIN after ]_vars

C9_Witness ==
    /\ pc = "done"
    /\ video_id = "vidAAAAAAAA"
    /\ video_details.title = ""
    /\ reports_data.kind = "object"
    /\ DOMAIN reports_data.entries = {"vidAAAAAAAA", "vidBBBBBBBB"}
    /\ reports_data.entries["vidAAAAAAAA"] = "Live set"
    /\ reports_data.entries["vidBBBBBBBB"] = "Old title"

(* C10: a missing or corrupt registry file is read as the empty mapping and
   never surfaces as an error: the route / hands its template a mapping, and
   a run that compiled its report ends with the report's URL. *)
C10_CorruptionSwallowed ==
    /\ index_reports.status # 500
    /\ index_reports.reports.kind = "object"
    /\ (pc = "done" /\ video_id \in DOMAIN report_files) => response.status = 200

(* The categories whose entry of summaries has been evaluated *)
Summarized ==
    CASE pc = "summarize_positive" -> {}
      [] pc = "summarize_negative" -> {"positive"}
      [] pc = "summarize_neutral" -> {"positive", "negative"}
      [] OTHER -> {"positive", "negative", "neutral"}

AllSummaryCalls ==
    LET Mine(call) == call.purpose = "summarize"
    IN  SelectSeq(ollama_calls, Mine)

(* C11: summarizing an empty bucket posts no call and gives the fixed
   no-comments fragment; summarizing a non-empty bucket of n comments posts
   exactly one call, whose prompt lists the first min(30, n) comments of the
   bucket in bucket order and nothing else; so the summarization calls of a
   run are one per non-empty category, at most three. *)
C11_SummaryCallsCapped ==
    /\ \A category \in Range(Categories) :
         LET bucket == analysis_data[bucket_key(category)]
             calls == SummaryCalls(category)
             n == Len(bucket)
             shown == IF n < SummaryCap THEN n ELSE SummaryCap
         IN  IF category \notin Summarized
             THEN calls = <<>>
             ELSE IF n = 0
             THEN /\ calls = <<>>
                  /\ summaries[category] = NoCommentsFragment(category)
             ELSE /\ Len(calls) = 1
                  /\ calls[1].prompt.category = category
                  /\ Len(calls[1].prompt.comment_texts) = shown
                  /\ \A k \in 1..shown :
                       calls[1].prompt.comment_texts[k] = bucket[k].text
    /\ Len(AllSummaryCalls) <= 3
    /\ Len(AllSummaryCalls) =
         Cardinality({category \in Summarized :
                          analysis_data[bucket_key(category)] # <<>>})

C11_Witness ==
    /\ pc = "insights"
    /\ Len(analysis_data.positive_comments) = SummaryCap + 2
    /\ analysis_data.negative_comments = <<>>
    /\ Len(analysis_data.neutral_comments) = 1
    /\ Len(AllSummaryCalls) = 2
    /\ Len(SummaryCalls("positive")[1].prompt.comment_texts) = SummaryCap
    /\ SummaryCalls("positive")[1].prompt.comment_texts[SummaryCap] = NumberedText(SummaryCap)
    /\ summaries.negative = NoCommentsFragment("negative")

AllWritten == \A w \in Writers : writers[w].at = "done"

Interleaved == \E w \in Writers : writers[w].concurrent

HasEntryOf(w) ==
    /\ reports_data.kind = "object"
    /\ writers[w].video_id \in DOMAIN reports_data.entries
    /\ reports_data.entries[writers[w].video_id] = writers[w].video_title

(* C12: when two calls of update_landing_page for different videos run one
   after the other, the file ends with both entries (and with the entries it
   had before); a final file that lacks one of the two entries arises only
   when the load and rewrite steps of the two calls interleaved - and does
   arise then (the witness). *)
C12_SerialKeepsBoth ==
    (AllWritten /\ ~Interleaved) =>
        /\ \A w \in Writers : HasEntryOf(w)
        /\ reports_data.kind = "object"
        /\ OtherVideoId \in DOMAIN reports_data.entries =>
               reports_data.entries[OtherVideoId] = "Old title"
        /\ DOMAIN reports_data.entries \subseteq
               {WriterVideoId(w) : w \in Writers} \cup {OtherVideoId}

C12_Witness ==
    /\ AllWritten
    /\ Interleaved
    /\ reports_data.kind = "object"
    /\ HasEntryOf(2)
    /\ ~HasEntryOf(1)
    /\ WriterVideoId(1) \notin DOMAIN reports_data.entries

(* Classification has finished: the buckets are those of the fetched list *)
Classified ==
    /\ pc \notin {"idle", "details", "comments", "classify"}
    /\ video_comments.kind = "list"
    /\ analysis_data = analyze_comments_vader(video_comments.list)

(* All three entries of summaries have been evaluated *)
AllSummarized == \A category \in Range(Categories) : summaries[category] # <<>>

(* C13: within one run no stage begins before the stages it depends on have
   finished.  Classification runs on the fetched list before any summary,
   insight or text-generation call exists; every later stage finds the
   buckets classified and leaves them as they are; the synthesis call is
   issued once, after all three summaries are determined, over those
   summaries, and after every summarization call; the report is written
   from the finished buckets, summaries, insights and conclusion; and the
   registry file changes only when the run's report has been written. *)
C13_StagesInOrder ==
    [][ /\ analysis_data' # analysis_data =>
             /\ pc = "classify"
             /\ video_comments.kind = "list"
             /\ summaries = NoSummaries
             /\ insight_data = NoInsights
             /\ ollama_calls = <<>>
             /\ report_files = EmptyMap
        /\ (summaries' # summaries \/ insight_data' # insight_data
                \/ ollama_calls' # ollama_calls) =>
             /\ Classified
             /\ analysis_data' = analysis_data
             /\ report_files = EmptyMap
        /\ summaries' # summaries => StrategyCalls = <<>>
        /\ StrategyCalls' # StrategyCalls =>
             /\ StrategyCalls = <<>>
             /\ Len(StrategyCalls') = 1
             /\ AllSummarized
             /\ summaries' = summaries
             /\ ollama_calls' = Append(ollama_calls, StrategyCalls'[1])
             /\ StrategyCalls'[1].prompt.positive_themes = strip_tags(summaries.positive)
             /\ StrategyCalls'[1].prompt.negative_themes = strip_tags(summaries.negative)
        /\ report_files' # report_files =>
             /\ Classified
             /\ AllSummarized
             /\ Len(StrategyCalls) = 1
             /\ insight_data = extract_insights(analysis_data.positive_comments)
             /\ UNCHANGED <<analysis_data, summaries, insight_data,
                            strategic_conclusion, ollama_calls, reports_data>>
             /\ report_files'[video_id] =
                    generate_html_report(video_id, video_details,
                                         Len(video_comments.list), analysis_data,
                                         insight_data, summaries, strategic_conclusion)
        /\ reports_data' # reports_data =>
             /\ video_id \in DOMAIN report_files
             /\ report_files' = report_files ]_vars

C13_Witness ==
    /\ pc = "done"
    /\ response.status = 200
    /\ Len(ollama_calls) = 4
    /\ ollama_calls[4].purpose = "strategy"
    /\ insight_data # NoInsights
    /\ video_id \in DOMAIN report_files
    /\ report_files[video_id].insights = insight_data
    /\ reports_data.kind = "object"
    /\ video_id \in DOMAIN reports_data.entries
    /\ reports_data.entries[video_id] = "Live set"

=============================================================================
